---------------------------- MODULE Spec2Model ----------------------------
(***************************************************************************)
(* kare/restflex: the request dispatchers.                                 *)
(*                                                                         *)
(*   handler.ServeHTTP (src/restflex.go) and API.ServeHTTP                 *)
(*   (src/unnamed/part_005): the dispatcher without timeout;               *)
(*   API.ServeHTTP (src/rest.go): the dispatcher with timeout, which runs  *)
(*   a watcher goroutine beside the handler path.                          *)
(*                                                                         *)
(* One behaviour is one request.  The wrapped handler is the environment:  *)
(* it writes through the tracker it is given and returns an error value.   *)
(* The underlying http.ResponseWriter commits the first status line it is  *)
(* given (a body write before any status line commits 200) and fixes the   *)
(* response headers at that moment.                                        *)
(*                                                                         *)
(* A Go string is a sequence of one-character strings where the code looks *)
(* into it (the Content-Type header), and a sequence of pieces where the   *)
(* code only concatenates and copies it (messages).                        *)
(***************************************************************************)
EXTENDS Integers, Sequences, FiniteSets, TLC

(***************************************************************************)
(* Bounds of the model.                                                    *)
(***************************************************************************)
\* the handler performs at most MaxOps writes before it returns
MaxOps == 2
\* the configured timeout is 0..MaxTimeout clock ticks
MaxTimeout == 2

(***************************************************************************)
(* net/http constants.                                                     *)
(***************************************************************************)
StatusOK == 200
StatusUnsupportedMediaType == 415
StatusTooManyRequests == 429
StatusInternalServerError == 500
StatusNotImplemented == 501

\* http.StatusText
StatusText(code) ==
    CASE code = 200 -> "OK"
      [] code = 400 -> "Bad Request"
      [] code = 404 -> "Not Found"
      [] code = 415 -> "Unsupported Media Type"
      [] code = 429 -> "Too Many Requests"
      [] code = 500 -> "Internal Server Error"
      [] code = 501 -> "Not Implemented"
      [] code = 502 -> "Bad Gateway"
      [] OTHER -> ""

(***************************************************************************)
(* Strings as character sequences: package strings and package mime.       *)
(***************************************************************************)
UpperChars == <<"A","B","C","D","E","F","G","H","I","J","K","L","M",
                "N","O","P","Q","R","S","T","U","V","W","X","Y","Z">>
LowerChars == <<"a","b","c","d","e","f","g","h","i","j","k","l","m",
                "n","o","p","q","r","s","t","u","v","w","x","y","z">>

\* unicode.ToLower on one ASCII character
ToLowerChar(c) ==
    IF \E i \in 1..26 : UpperChars[i] = c
    THEN LowerChars[CHOOSE i \in 1..26 : UpperChars[i] = c]
    ELSE c

\* strings.ToLower
ToLower(s) == [i \in 1..Len(s) |-> ToLowerChar(s[i])]

\* unicode.IsSpace, on the characters a header line can hold
IsSpace(c) == c \in {" ", "\t"}

\* mime.isTSpecial: the characters of ()<>@,;:\"/[]?=
TSpecials == {"(", ")", "<", ">", "@", ",", ";", ":", "\\", "\"", "/", "[", "]", "?", "="}

\* mime.isTokenChar, on printable ASCII
IsTokenChar(c) == ~IsSpace(c) /\ c \notin TSpecials

\* s[from..], the Go slice s[from-1:]
Drop(s, n) == SubSeq(s, n + 1, Len(s))
Take(s, n) == SubSeq(s, 1, n)

\* strings.HasPrefix
HasPrefix(s, p) == Len(s) >= Len(p) /\ Take(s, Len(p)) = p

\* strings.Index for a one-character separator: 0 when absent (Go's -1)
IndexChar(s, c) ==
    IF \E i \in 1..Len(s) : s[i] = c
    THEN CHOOSE i \in 1..Len(s) : s[i] = c /\ \A j \in 1..(i - 1) : s[j] # c
    ELSE 0

\* strings.Split(s, sep) for a one-character sep: always at least one element
RECURSIVE Split(_, _)
Split(s, c) ==
    LET i == IndexChar(s, c)
    IN  IF i = 0 THEN <<s>>
        ELSE <<Take(s, i - 1)>> \o Split(Drop(s, i), c)

\* strings.Cut(s, ";"): the part before the first separator (all of s if none)
CutBefore(s, c) ==
    LET i == IndexChar(s, c)
    IN  IF i = 0 THEN s ELSE Take(s, i - 1)

\* strings.TrimLeftFunc(s, unicode.IsSpace)
RECURSIVE TrimLeft(_)
TrimLeft(s) == IF s # <<>> /\ IsSpace(s[1]) THEN TrimLeft(Drop(s, 1)) ELSE s

RECURSIVE TrimRight(_)
TrimRight(s) ==
    IF s # <<>> /\ IsSpace(s[Len(s)]) THEN TrimRight(Take(s, Len(s) - 1)) ELSE s

\* strings.TrimSpace
TrimSpace(s) == TrimRight(TrimLeft(s))

\* the length of the longest prefix of token characters
RECURSIVE TokenLen(_)
TokenLen(s) == IF s # <<>> /\ IsTokenChar(s[1]) THEN 1 + TokenLen(Drop(s, 1)) ELSE 0

\* mime.consumeToken: <<token, rest>>; token is empty when s starts with none
ConsumeToken(s) == LET n == TokenLen(s) IN <<Take(s, n), Drop(s, n)>>

\* mime.checkMediaTypeDisposition: TRUE when it returns nil
CheckMediaTypeDisposition(s) ==
    LET t1 == ConsumeToken(s)
    IN  IF t1[1] = <<>> THEN FALSE                    \* no media type
        ELSE IF t1[2] = <<>> THEN TRUE
        ELSE IF ~HasPrefix(t1[2], <<"/">>) THEN FALSE \* expected slash
        ELSE LET t2 == ConsumeToken(Drop(t1[2], 1))
             IN  IF t2[1] = <<>> THEN FALSE           \* expected token after slash
                 ELSE t2[2] = <<>>                    \* unexpected content

\* mime.consumeMediaParam for token values: <<ok, rest>>; ok is FALSE when it
\* returns an empty key (and then rest is v)
ConsumeMediaParam(v) ==
    LET r0 == TrimLeft(v)
    IN  IF ~HasPrefix(r0, <<";">>) THEN <<FALSE, v>>
        ELSE LET p == ConsumeToken(TrimLeft(Drop(r0, 1)))
             IN  IF p[1] = <<>> THEN <<FALSE, v>>
                 ELSE LET r1 == TrimLeft(p[2])
                      IN  IF ~HasPrefix(r1, <<"=">>) THEN <<FALSE, v>>
                          ELSE LET val == ConsumeToken(TrimLeft(Drop(r1, 1)))
                               IN  IF val[1] = <<>> THEN <<FALSE, v>>
                                   ELSE <<TRUE, val[2]>>

\* the parameter loop of mime.ParseMediaType: TRUE when every parameter parses
\* (a trailing semicolon is ignored)
RECURSIVE ParamsOK(_)
ParamsOK(v) ==
    LET v1 == TrimLeft(v)
    IN  IF v1 = <<>> THEN TRUE
        ELSE LET c == ConsumeMediaParam(v1)
             IN  IF ~c[1] THEN TrimSpace(c[2]) = <<";">>
                 ELSE ParamsOK(c[2])

\* mime.ParseMediaType(v): [err, t]; t is the lower-cased media type without
\* its parameters.  Quoted parameter values, RFC 2231 continuations and
\* repeated parameter names are outside the headers the model draws.
ParseMediaType(v) ==
    LET base      == CutBefore(v, ";")
        mediatype == TrimSpace(ToLower(base))
    IN  IF ~CheckMediaTypeDisposition(mediatype) THEN [err |-> TRUE, t |-> <<>>]
        ELSE IF ~ParamsOK(Drop(v, Len(base))) THEN [err |-> TRUE, t |-> mediatype]
        ELSE [err |-> FALSE, t |-> mediatype]

(***************************************************************************)
(* Requests.                                                               *)
(***************************************************************************)
\* the text of a header as a character sequence
AppJSON == <<"a","p","p","l","i","c","a","t","i","o","n","/","j","s","o","n">>
AppForm == <<"a","p","p","l","i","c","a","t","i","o","n","/",
             "x","-","w","w","w","-","f","o","r","m","-",
             "u","r","l","e","n","c","o","d","e","d">>
TextPlain == <<"t","e","x","t","/","p","l","a","i","n">>
Charset == <<";"," ","c","h","a","r","s","e","t","=","u","t","f","-","8">>

\* one entry of a Content-Type header
Entries ==
    { AppJSON,
      AppJSON \o Charset,                               \* application/json; charset=utf-8
      AppForm,
      TextPlain,
      <<"A","p","p","l","i","c","a","t","i","o","n","/","J","S","O","N">>,
      AppJSON \o <<"p">>,                               \* application/jsonp
      AppJSON \o <<";">>,                               \* trailing semicolon
      AppJSON \o <<";"," ","c","h","a","r","s","e","t">>, \* a parameter without value
      <<" ">> \o AppForm \o <<" ">>,
      <<"a","p","p","l","i","c","a","t","i","o","n">>,  \* a type without subtype
      <<"/","j","s","o","n">>,                          \* no type
      <<"a"," ","b">> }                                 \* unparsable

\* a header that lists two entries, and the header that is only a comma
ListHeads == { TextPlain, <<"a"," ","b">>, AppJSON \o Charset }
ListTails == { AppJSON, <<" ">> \o AppForm, <<>> }
Lists == { h \o <<",">> \o e : h \in ListHeads, e \in ListTails } \cup { <<",">> }

\* r.Header.Get("Content-Type"): the empty string when the header is absent
ContentTypes == {<<>>} \cup Entries \cup Lists

Methods == {"GET", "HEAD", "DELETE", "POST", "PUT", "PATCH"}

(***************************************************************************)
(* The Content-Type gate: lines 32-51 of handler.ServeHTTP.                *)
(***************************************************************************)
acceptedContentTypes == <<AppJSON, AppForm>>

IsMutating(m) == m \in {"POST", "PUT", "PATCH"}

\* the inner loop: some accepted content type is a prefix of t
MatchesAccepted(t) ==
    \E i \in 1..Len(acceptedContentTypes) : HasPrefix(t, acceptedContentTypes[i])

\* a variant of correctContentTypeFound that gives up at the first entry that
\* does not parse (break instead of continue)
correctContentTypeFoundStopAtError(contentType) ==
    LET vs == Split(contentType, ",")
    IN  \E k \in 1..Len(vs) :
            /\ \A j \in 1..k : ~ParseMediaType(vs[j]).err
            /\ MatchesAccepted(ParseMediaType(vs[k]).t)

\* the outer loop over strings.Split(contentType, ","): an entry that does
\* not parse is skipped
correctContentTypeFound(contentType) ==
    LET vs == Split(contentType, ",")
    IN  \E k \in 1..Len(vs) :
            LET p == ParseMediaType(vs[k])
            IN  ~p.err /\ MatchesAccepted(p.t)

\* a variant of GatePasses that checks the header of POST requests only
GatePassesPostOnly(m, contentType) ==
    m # "POST" \/ correctContentTypeFound(contentType)

\* a variant of GatePasses that checks the header whatever the method
GatePassesAnyMethod(m, contentType) == correctContentTypeFound(contentType)

\* the request goes on to the handler
GatePasses(m, contentType) ==
    ~IsMutating(m) \/ correctContentTypeFound(contentType)

(***************************************************************************)
(* Error values.  An error is nil, an opaque error (errors.New), an        *)
(* APIError, or an error that wraps an APIError (fmt.Errorf with %w).      *)
(* A nil slice and an empty slice are different values.                    *)
(***************************************************************************)
NilSlice == [isNil |-> TRUE, elems |-> <<>>]
Slice(elems) == [isNil |-> FALSE, elems |-> elems]

NilErr == [kind |-> "nil", statusCode |-> 0, messages |-> NilSlice, cause |-> "", text |-> "",
           depth |-> 0, inner |-> "nil"]

\* errors.New(text)
NewOpaque(text) == [NilErr EXCEPT !.kind = "opaque", !.text = text]

\* NewAPIError(statusCode, cause, messages...): cause "" is a nil cause
NewAPIError(statusCode, cause, messages) ==
    [NilErr EXCEPT !.kind = "api", !.statusCode = statusCode, !.messages = messages,
                   !.cause = cause]

\* fmt.Errorf(text + ": %w", e): depth wrappers around an error of kind
\* inner; text is the text of the outermost
Wrap(text, e) ==
    [e EXCEPT !.kind = "wrap", !.text = text, !.depth = e.depth + 1,
              !.inner = IF e.kind = "wrap" THEN e.inner ELSE e.kind]

\* errors.Unwrap of a wrapping error: the error one wrapper further in
Unwrap(e) ==
    IF e.depth > 1 THEN [e EXCEPT !.depth = e.depth - 1]
    ELSE [e EXCEPT !.kind = e.inner, !.depth = 0, !.inner = "nil",
                   !.text = IF e.inner = "api" THEN "" ELSE e.text]

\* NewAPIErrorWithMessage / NewAPIErrorWithCause of the dispatcher with
\* timeout: one message, and the cause beside it
NewAPIErrorWithMessage(statusCode, message, cause) ==
    NewAPIError(statusCode, cause, Slice(<<message>>))

\* a variant of ErrorsAs that looks at the error itself only, not at the
\* errors it wraps
ErrorsAsDirectOnly(err) == err.kind = "api"

\* errors.As(err, &apiError): the first error of the Unwrap chain that is an
\* APIError
RECURSIVE ErrorsAs(_)
ErrorsAs(err) ==
    IF err.kind = "api" THEN TRUE
    ELSE IF err.kind = "wrap" THEN ErrorsAs(Unwrap(err))
    ELSE FALSE

\* apiError.StatusCode
StatusCodeOf(err) == err.statusCode

\* a variant of ErrorsOf that keeps only the first message
ErrorsOfFirstOnly(err) ==
    IF Len(err.messages.elems) > 1 THEN Slice(<<err.messages.elems[1]>>)
    ELSE err.messages

\* a variant of ErrorsOf that appends the cause's text to the messages
ErrorsOfWithCause(err) ==
    IF err.cause # "" THEN Slice(Append(err.messages.elems, <<err.cause>>))
    ELSE err.messages

\* apiError.Errors
ErrorsOf(err) == err.messages

\* basicAPIError.ErrorAPI
ErrorAPIOf(err) == err.messages.elems[1]

\* apiError.Error, as the logger prints it
ErrorTextOf(err) ==
    CASE err.kind = "nil" -> <<"<nil>">>
      [] err.kind \in {"opaque", "wrap"} -> <<err.text>>
      [] err.cause # "" -> <<err.cause>>
      [] Len(err.messages.elems) > 0 -> err.messages.elems[1]
      [] OTHER -> <<"unknown API error">>

(***************************************************************************)
(* The JSON codec.  A body is a sequence of tokens; a string token holds   *)
(* the string it encodes.                                                  *)
(***************************************************************************)
P(x) == [t |-> "punct", v |-> <<x>>]
K(x) == [t |-> "key", v |-> <<x>>]
S(m) == [t |-> "str", v |-> m]

RECURSIVE EncodeStrings(_)
EncodeStrings(elems) ==
    IF elems = <<>> THEN <<>>
    ELSE IF Len(elems) = 1 THEN <<S(elems[1])>>
    ELSE <<S(elems[1]), P(",")>> \o EncodeStrings(Tail(elems))

\* json.Encoder.Encode of an ErrorMessage{Errors []string}
EncodeErrorMessage(messages) ==
    <<P("{"), K("errors"), P(":")>>
    \o (IF messages.isNil THEN <<P("null")>>
        ELSE <<P("[")>> \o EncodeStrings(messages.elems) \o <<P("]")>>)
    \o <<P("}"), P("\n")>>

\* json.Encoder.Encode of the ErrorMessage{Message string} of src/rest.go
EncodeMessage(message) ==
    <<P("{"), K("message"), P(":"), S(message), P("}"), P("\n")>>

\* the elements of an array whose "[" is at ts[i - 1]: <<ok, elems, next>>
RECURSIVE DecodeElems(_, _, _, _)
DecodeElems(ts, i, acc, first) ==
    IF i > Len(ts) THEN <<FALSE, acc, i>>
    ELSE IF first /\ ts[i] = P("]") THEN <<TRUE, acc, i + 1>>
    ELSE IF ts[i].t # "str" THEN <<FALSE, acc, i>>
    ELSE IF i + 1 > Len(ts) THEN <<FALSE, acc, i>>
    ELSE IF ts[i + 1] = P("]") THEN <<TRUE, Append(acc, ts[i].v), i + 2>>
    ELSE IF ts[i + 1] = P(",") THEN DecodeElems(ts, i + 2, Append(acc, ts[i].v), FALSE)
    ELSE <<FALSE, acc, i>>

\* json.Decoder.Decode into an ErrorMessage{Errors []string}, as the tests
\* decode the response body: the first JSON value of the stream; a key other
\* than "errors" is ignored
DecodeErrorMessage(ts) ==
    LET bad == [ok |-> FALSE, errors |-> NilSlice]
    IN  IF Len(ts) < 5 \/ ts[1] # P("{") \/ ts[2].t # "key" \/ ts[3] # P(":") THEN bad
        ELSE LET isErrors == ts[2] = K("errors")
             IN  IF ts[4] = P("null") \/ (~isErrors /\ ts[4] = P("true"))
                                      \/ (~isErrors /\ ts[4].t = "str")
                 THEN IF ts[5] = P("}") THEN [ok |-> TRUE, errors |-> NilSlice] ELSE bad
                 ELSE IF ts[4] = P("[")
                 THEN LET r == DecodeElems(ts, 5, <<>>, TRUE)
                      IN  IF r[1] /\ r[3] <= Len(ts) /\ ts[r[3]] = P("}")
                          THEN [ok |-> TRUE,
                                errors |-> IF isErrors THEN Slice(r[2]) ELSE NilSlice]
                          ELSE bad
                 ELSE bad

\* the body a handler writes: {"ok":true}
OkBody == <<P("{"), K("ok"), P(":"), P("true"), P("}")>>

(***************************************************************************)
(* The underlying response sink, an http.ResponseWriter.                   *)
(***************************************************************************)
JSONContentType == "application/json; charset=utf-8"

NewSink == [committed |-> FALSE, status |-> 0, ctype |-> "", hdr |-> "", body |-> <<>>]

\* ResponseWriter.WriteHeader: the first status line is committed with the
\* headers as they are now; a later one is ignored
SinkWriteHeader(s, code) ==
    IF s.committed THEN s
    ELSE [s EXCEPT !.committed = TRUE, !.status = code, !.ctype = s.hdr]

\* ResponseWriter.Header().Set("Content-Type", v)
SinkSetContentType(s, v) == [s EXCEPT !.hdr = v]

\* ResponseWriter.Write: commits 200 when no status line was written; ok is
\* FALSE when the transport fails the write (the model draws that for the
\* writes of Error, whose failure the code logs)
SinkWrite(s, b, ok) ==
    LET s1 == SinkWriteHeader(s, StatusOK)
    IN  IF ok THEN [s1 EXCEPT !.body = @ \o b] ELSE s1

(***************************************************************************)
(* The response-write tracker, responseWriter.                             *)
(***************************************************************************)
\* &responseWriter{ResponseWriter: w, status: http.StatusOK}
NewTracker == [isWritten |-> FALSE, status |-> StatusOK]

\* &responseWriter{ResponseWriter: w} of src/rest.go, which has no status
NewTrackerNoStatus == [isWritten |-> FALSE, status |-> 0]

\* a variant of TrackWriteHeader that records the status only
TrackWriteHeaderNotWritten(t, code) == [t EXCEPT !.status = code]

\* responseWriter.WriteHeader, the tracker's part
TrackWriteHeader(t, code) == [t EXCEPT !.isWritten = TRUE, !.status = code]

\* responseWriter.WriteHeader of src/rest.go, the tracker's part
TrackWriteHeaderNoStatus(t, code) == [t EXCEPT !.isWritten = TRUE]

\* a variant of TrackWrite that puts the status back to 200
TrackWriteResetsStatus(t) == [t EXCEPT !.isWritten = TRUE, !.status = StatusOK]

\* responseWriter.Write, the tracker's part
TrackWrite(t) == [t EXCEPT !.isWritten = TRUE]

(***************************************************************************)
(* The state of one request.                                               *)
(***************************************************************************)
VARIABLES
    variant,      \* "restflex": handler.ServeHTTP of src/restflex.go;
                  \* "rest": API.ServeHTTP of src/unnamed/part_005;
                  \* "timeout": API.ServeHTTP of src/rest.go
    timeout,      \* API.timeout, in clock ticks
    method,       \* r.Method
    contentType,  \* r.Header.Get("Content-Type")
    pc,           \* where ServeHTTP is
    wpc,          \* where the watcher goroutine is ("none": there is none)
    call,         \* the arguments of the Error call ServeHTTP is in
    rw,           \* the tracker: isWritten, status
    sink,         \* the underlying http.ResponseWriter w
    calls,        \* every call made on w, in order
    err,          \* the error the handler returned
    invoked,      \* how often the wrapped handler was invoked
    hops,         \* how many writes the handler has made
    logs,         \* what was given to the logger, in order
    now,          \* clock ticks since ServeHTTP began
    ctxErr,       \* ctx.Err(): "none", "DeadlineExceeded" or "Canceled"
    probe,        \* a call of a function of the package outside a request: its
                  \* arguments and, once it was made, its result
    atDeadline    \* history: where ServeHTTP was, and how many calls had reached
                  \* w, when the deadline elapsed (NoDeadline: it has not)

vars == <<variant, timeout, method, contentType, pc, wpc, call, rw, sink, calls,
          err, invoked, hops, logs, now, ctxErr, probe, atDeadline>>

\* what the model draws for the handler
HandlerStatuses == {200, 404}
MsgA == <<"a">>
MsgB == <<"b">>
MessageLists ==
    { NilSlice, Slice(<<>>), Slice(<<MsgA>>), Slice(<<MsgA, MsgB>>), Slice(<<MsgB, MsgA>>) }

\* the errors a handler of the dispatchers without timeout returns
HandlerErrors ==
    {NilErr, NewOpaque("boom"), NewOpaque("secret")}
    \cup { NewAPIError(400, "", m) : m \in MessageLists }
    \cup { NewAPIError(500, "secret", Slice(<<MsgA>>)),
           NewAPIError(500, "boom", Slice(<<MsgA>>)),
           NewAPIError(400, "boom", NilSlice),
           Wrap("boom", NewAPIError(404, "", Slice(<<MsgB>>))),
           Wrap("secret", Wrap("boom", NewAPIError(404, "", Slice(<<MsgB>>)))),
           Wrap("boom", NewOpaque("secret")) }

\* the errors a handler of the dispatcher with timeout returns
HandlerErrorsTimeout ==
    { NilErr, NewOpaque("boom"),
      NewAPIErrorWithMessage(400, MsgA, ""),
      NewAPIErrorWithMessage(400, MsgA, "secret") }

NoCall == [target |-> "none", status |-> 0, messages |-> NilSlice]

WriteHeaderCall(by, code) ==
    [by |-> by, op |-> "WriteHeader", status |-> code, data |-> <<>>, ok |-> TRUE]
SetHeaderCall(by) ==
    [by |-> by, op |-> "SetHeader", status |-> 0, data |-> <<>>, ok |-> TRUE]
WriteCall(by, b, ok) ==
    [by |-> by, op |-> "Write", status |-> 0, data |-> b, ok |-> ok]

LogEntry(kind, status, text) == [kind |-> kind, status |-> status, text |-> text]

\* no function of the package is called outside the request
NoProbe == [op |-> "none", e |-> NilErr, t |-> NilErr, body |-> <<>>,
            match |-> FALSE, ret |-> NilErr]

\* the deadline of the context has not elapsed
NoDeadline == [pc |-> "none", ncalls |-> 0]

(***************************************************************************)
(* Construction: the state when ServeHTTP is entered.                      *)
(***************************************************************************)
InitCommon ==
    /\ call = NoCall
    /\ rw = NewTracker
    /\ sink = NewSink
    /\ calls = <<>>
    /\ err = NilErr
    /\ invoked = 0
    /\ hops = 0
    /\ logs = <<>>
    /\ now = 0
    /\ ctxErr = "none"
    /\ atDeadline = NoDeadline

\* NewHandlerWithContext(l, h) of src/restflex.go, NewAPI(l) of part_005
Init ==
    /\ variant \in {"restflex", "rest"}
    /\ timeout = 0
    /\ method \in Methods
    /\ contentType \in ContentTypes
    /\ pc = "gate"
    /\ wpc = "none"
    /\ probe = NoProbe
    /\ InitCommon

\* NewAPI(l, timeout) of src/rest.go
InitTimeout ==
    /\ variant = "timeout"
    /\ timeout \in 0..MaxTimeout
    /\ method \in {"GET", "POST"}
    /\ contentType \in {<<>>, AppJSON, TextPlain}
    /\ pc = "start"
    /\ wpc = "none"
    /\ probe = NoProbe
    /\ InitCommon

(***************************************************************************)
(* ServeHTTP.                                                              *)
(***************************************************************************)
\* %q of a content type
Quote(s) == <<"\"">> \o s \o <<"\"">>

\* the loop that builds the gate's message; i is the Go index plus one
RECURSIVE GateMessageFrom(_, _)
GateMessageFrom(i, msg) ==
    IF i > Len(acceptedContentTypes) THEN msg
    ELSE LET m1 == msg \o Quote(acceptedContentTypes[i])
         IN  GateMessageFrom(i + 1,
                 IF (i - 1) - 1 < Len(acceptedContentTypes) THEN m1 \o <<" or ">> ELSE m1)

GateMessage ==
    GateMessageFrom(1, <<"POST, PUT, and PATCH methods require request content type of ">>)

\* a variant of AfterReturn without the deferred cancel()
AfterReturnNoCancel(e) == e

\* the deferred cancel() of src/rest.go, run when ServeHTTP returns
AfterReturn(e) == IF variant = "timeout" /\ e = "none" THEN "Canceled" ELSE e

\* the gate, and on success the construction of the tracker and the call of
\* the wrapped handler
Gate ==
    /\ pc = "gate"
    /\ IF ~GatePasses(method, contentType)
       THEN /\ call' = [target |-> "w", status |-> StatusUnsupportedMediaType,
                        messages |-> Slice(<<GateMessage>>)]
            /\ pc' = "errWriteHeader"
            /\ UNCHANGED <<rw, invoked>>
       ELSE /\ rw' = IF variant = "timeout" THEN NewTrackerNoStatus ELSE NewTracker
            /\ invoked' = invoked + 1
            /\ pc' = "serve"
            /\ UNCHANGED call
    /\ UNCHANGED <<variant, timeout, method, contentType, wpc, sink, calls, err,
                   hops, logs, now, ctxErr>>
    /\ UNCHANGED atDeadline
    /\ UNCHANGED probe

\* the handler calls rw.WriteHeader(code)
HandlerWriteHeader(code) ==
    /\ pc = "serve"
    /\ hops < MaxOps
    /\ hops' = hops + 1
    /\ rw' = IF variant = "timeout" THEN TrackWriteHeaderNoStatus(rw, code)
             ELSE TrackWriteHeader(rw, code)
    /\ sink' = SinkWriteHeader(sink, code)
    /\ calls' = Append(calls, WriteHeaderCall("handler", code))
    /\ UNCHANGED <<variant, timeout, method, contentType, pc, wpc, call, err,
                   invoked, logs, now, ctxErr>>
    /\ UNCHANGED atDeadline
    /\ UNCHANGED probe

\* the handler calls rw.Write(b)
HandlerWrite ==
    /\ pc = "serve"
    /\ hops < MaxOps
    /\ hops' = hops + 1
    /\ rw' = TrackWrite(rw)
    /\ sink' = SinkWrite(sink, OkBody, TRUE)
    /\ calls' = Append(calls, WriteCall("handler", OkBody, TRUE))
    /\ UNCHANGED <<variant, timeout, method, contentType, pc, wpc, call, err,
                   invoked, logs, now, ctxErr>>
    /\ UNCHANGED atDeadline
    /\ UNCHANGED probe

\* the handler returns e
HandlerReturn(e) ==
    /\ pc = "serve"
    /\ err' = e
    /\ pc' = "classify"
    /\ UNCHANGED <<variant, timeout, method, contentType, wpc, call, rw, sink, calls,
                   invoked, hops, logs, now, ctxErr>>
    /\ UNCHANGED atDeadline
    /\ UNCHANGED probe

\* the switch on rw.status that logs the outcome
StatusLogs(v, status, e) ==
    IF status > 399 /\ status < 500
    THEN <<LogEntry("client error", status, <<>>)>>
    ELSE IF status = 500 \/ status > 501
    THEN IF v = "restflex"
         THEN IF ~ErrorsAs(e)
              THEN <<LogEntry("server error", status, ErrorTextOf(e))>>
              ELSE <<>>
         ELSE <<LogEntry("server error", status, ErrorTextOf(e))>>
              \o (IF ErrorsAs(e) THEN <<LogEntry("API ERROR", status, ErrorTextOf(e))>>
                  ELSE <<>>)
    ELSE <<>>

\* the line "error: %v is written: %v" of src/restflex.go
TraceLogs(v, e) ==
    IF v = "restflex" THEN <<LogEntry("error", 0, ErrorTextOf(e))>> ELSE <<>>

\* a variant of OutcomeCall without the default response: a nil error returns
OutcomeCallNoDefault(v, e, isWritten) ==
    IF e.kind = "nil" THEN NoCall
    ELSE [target |-> "rw",
          status |-> IF ErrorsAs(e) THEN StatusCodeOf(e) ELSE StatusInternalServerError,
          messages |-> IF ErrorsAs(e) THEN ErrorsOf(e)
                       ELSE Slice(<< <<StatusText(StatusInternalServerError)>> >>)]

\* a variant of OutcomeCall that does not look at isWritten: a nil error is
\* always answered with 501
OutcomeCallDefaultAlways(v, e, isWritten) ==
    [target |-> "rw",
     status |-> IF e.kind = "nil" THEN StatusNotImplemented
                ELSE IF ErrorsAs(e) THEN StatusCodeOf(e) ELSE StatusInternalServerError,
     messages |-> IF e.kind = "nil" THEN Slice(<< <<StatusText(StatusNotImplemented)>> >>)
                  ELSE IF ErrorsAs(e) THEN ErrorsOf(e)
                  ELSE Slice(<< <<StatusText(StatusInternalServerError)>> >>)]

\* a variant of OutcomeCall that answers an opaque error with no response
OutcomeCallSilentOpaque(v, e, isWritten) ==
    IF e.kind = "nil" /\ ~isWritten
    THEN [target |-> "rw", status |-> StatusNotImplemented,
          messages |-> Slice(<< <<StatusText(StatusNotImplemented)>> >>)]
    ELSE IF e.kind = "nil" \/ ~ErrorsAs(e) THEN NoCall
    ELSE [target |-> IF v = "timeout" THEN "w" ELSE "rw",
          status |-> StatusCodeOf(e),
          messages |-> IF v = "timeout" THEN Slice(<<ErrorAPIOf(e)>>) ELSE ErrorsOf(e)]

\* the Error call that answers the handler's outcome; target "none": no call
OutcomeCall(v, e, isWritten) ==
    IF e.kind = "nil" /\ ~isWritten
    THEN [target |-> "rw", status |-> StatusNotImplemented,
          messages |-> Slice(<< <<StatusText(StatusNotImplemented)>> >>)]
    ELSE IF e.kind = "nil" THEN NoCall
    ELSE IF ErrorsAs(e)
    THEN [target |-> IF v = "timeout" THEN "w" ELSE "rw",
          status |-> StatusCodeOf(e),
          messages |-> IF v = "timeout" THEN Slice(<<ErrorAPIOf(e)>>) ELSE ErrorsOf(e)]
    ELSE [target |-> IF v = "timeout" THEN "w" ELSE "rw",
          status |-> StatusInternalServerError,
          messages |-> Slice(<< <<StatusText(StatusInternalServerError)>> >>)]

\* a variant of AfterClassify that runs the request again when the handler
\* returned an error
AfterClassifyRetry(c, e) ==
    IF e.kind # "nil" /\ invoked < 2 THEN "gate"
    ELSE IF c.target = "none" THEN "done" ELSE "errWriteHeader"

\* where ServeHTTP goes after the classification: it returns, or it is in the
\* one Error call of the outcome; no path leads back to the handler
AfterClassify(c, e) == IF c.target = "none" THEN "done" ELSE "errWriteHeader"

\* ServeHTTP after the handler returned, up to the Error call or the return
Classify ==
    /\ pc = "classify"
    /\ LET c == OutcomeCall(variant, err, rw.isWritten)
           unimplemented == err.kind = "nil" /\ ~rw.isWritten
       IN  /\ call' = c
           /\ logs' = logs \o TraceLogs(variant, err)
                           \o (IF unimplemented \/ variant = "timeout" THEN <<>>
                               ELSE StatusLogs(variant, rw.status, err))
           /\ pc' = AfterClassify(c, err)
           /\ ctxErr' = IF c.target = "none" THEN AfterReturn(ctxErr) ELSE ctxErr
    /\ UNCHANGED <<variant, timeout, method, contentType, wpc, rw, sink, calls, err,
                   invoked, hops, now>>
    /\ UNCHANGED atDeadline
    /\ UNCHANGED probe

\* Error: w.WriteHeader(statusCode)
ErrorWriteHeader ==
    /\ pc = "errWriteHeader"
    /\ rw' = IF call.target # "rw" THEN rw
             ELSE IF variant = "timeout" THEN TrackWriteHeaderNoStatus(rw, call.status)
             ELSE TrackWriteHeader(rw, call.status)
    /\ sink' = SinkWriteHeader(sink, call.status)
    /\ calls' = Append(calls, WriteHeaderCall("dispatcher", call.status))
    /\ pc' = "errSetHeader"
    /\ UNCHANGED <<variant, timeout, method, contentType, wpc, call, err, invoked,
                   hops, logs, now, ctxErr>>
    /\ UNCHANGED atDeadline
    /\ UNCHANGED probe

\* Error: w.Header().Set("Content-Type", "application/json; charset=utf-8")
ErrorSetHeader ==
    /\ pc = "errSetHeader"
    /\ sink' = SinkSetContentType(sink, JSONContentType)
    /\ calls' = Append(calls, SetHeaderCall("dispatcher"))
    /\ pc' = "errEncode"
    /\ UNCHANGED <<variant, timeout, method, contentType, wpc, call, rw, err, invoked,
                   hops, logs, now, ctxErr>>
    /\ UNCHANGED atDeadline
    /\ UNCHANGED probe

\* a variant of ErrorLogs that drops the failure without logging it
ErrorLogsSilent(l, ok) == l

\* Error after EncodeJSON: a failure is logged, and nothing else is done
ErrorLogs(l, ok) ==
    IF ok THEN l
    ELSE Append(l, LogEntry("error while writing error response", 0, <<>>))

\* the body Error encodes
ErrorBody(v, messages) ==
    IF v = "timeout" THEN EncodeMessage(messages.elems[1])
    ELSE EncodeErrorMessage(messages)

\* Error: EncodeJSON(w, &msg), the logging of its failure, and the return of
\* ServeHTTP
ErrorEncode(ok) ==
    /\ pc = "errEncode"
    /\ rw' = IF call.target = "rw" THEN TrackWrite(rw) ELSE rw
    /\ sink' = SinkWrite(sink, ErrorBody(variant, call.messages), ok)
    /\ calls' = Append(calls, WriteCall("dispatcher", ErrorBody(variant, call.messages), ok))
    /\ logs' = ErrorLogs(logs, ok)
    /\ pc' = "done"
    /\ ctxErr' = AfterReturn(ctxErr)
    /\ UNCHANGED <<variant, timeout, method, contentType, wpc, call, err, invoked,
                   hops, now>>
    /\ UNCHANGED atDeadline
    /\ UNCHANGED probe

Next ==
    \/ Gate
    \/ \E code \in HandlerStatuses : HandlerWriteHeader(code)
    \/ HandlerWrite
    \/ \E e \in HandlerErrors : HandlerReturn(e)
    \/ Classify
    \/ ErrorWriteHeader
    \/ ErrorSetHeader
    \/ \E ok \in BOOLEAN : ErrorEncode(ok)

Spec == Init /\ [][Next]_vars

(***************************************************************************)
(* The dispatcher with timeout: the context and the watcher goroutine.     *)
(***************************************************************************)
\* context.WithTimeout(r.Context(), a.timeout): a deadline that is not in the
\* future cancels the context at once
WithTimeout(d) == IF d <= 0 THEN "DeadlineExceeded" ELSE "none"

\* the first lines of ServeHTTP: the context, the deferred cancel, go func()
Start ==
    /\ pc = "start"
    /\ ctxErr' = WithTimeout(timeout)
    /\ atDeadline' = IF WithTimeout(timeout) = "DeadlineExceeded"
                     THEN [pc |-> pc, ncalls |-> Len(calls)] ELSE atDeadline
    /\ wpc' = "wait"
    /\ pc' = "gate"
    /\ UNCHANGED <<variant, timeout, method, contentType, call, rw, sink, calls, err,
                   invoked, hops, logs, now>>
    /\ UNCHANGED probe

\* the clock advances; the context's timer fires at the deadline
Tick ==
    /\ pc # "start"
    /\ ctxErr = "none"
    /\ now < timeout
    /\ now' = now + 1
    /\ ctxErr' = IF now + 1 >= timeout THEN "DeadlineExceeded" ELSE "none"
    /\ atDeadline' = IF now + 1 >= timeout
                     THEN [pc |-> pc, ncalls |-> Len(calls)] ELSE atDeadline
    /\ UNCHANGED <<variant, timeout, method, contentType, pc, wpc, call, rw, sink,
                   calls, err, invoked, hops, logs>>
    /\ UNCHANGED probe

\* the inbound request's context is canceled (the client went away)
ParentCancel ==
    /\ pc # "start"
    /\ ctxErr = "none"
    /\ ctxErr' = "Canceled"
    /\ UNCHANGED <<variant, timeout, method, contentType, pc, wpc, call, rw, sink,
                   calls, err, invoked, hops, logs, now>>
    /\ UNCHANGED atDeadline
    /\ UNCHANGED probe

\* a variant of WatcherResponds that answers every error of the context,
\* context.Canceled too
WatcherRespondsToAnyError(e) == e # "none"

\* the watcher's switch: errors.Is(err, context.DeadlineExceeded)
WatcherResponds(e) == e = "DeadlineExceeded"

\* the watcher: <-ctx.Done() and the switch on ctx.Err()
WatcherWake ==
    /\ wpc = "wait"
    /\ ctxErr # "none"
    /\ IF WatcherResponds(ctxErr)
       THEN /\ logs' = Append(logs, LogEntry("API timeout", 0, <<>>))
            /\ wpc' = "errWriteHeader"
       ELSE /\ wpc' = "end"
            /\ UNCHANGED logs
    /\ UNCHANGED <<variant, timeout, method, contentType, pc, call, rw, sink, calls,
                   err, invoked, hops, now, ctxErr>>
    /\ UNCHANGED atDeadline
    /\ UNCHANGED probe

TimeoutMessage == <<"request took too long to complete">>

\* the watcher's a.Error(w, ..., http.StatusTooManyRequests): w.WriteHeader
WatcherWriteHeader ==
    /\ wpc = "errWriteHeader"
    /\ sink' = SinkWriteHeader(sink, StatusTooManyRequests)
    /\ calls' = Append(calls, WriteHeaderCall("watcher", StatusTooManyRequests))
    /\ wpc' = "errSetHeader"
    /\ UNCHANGED <<variant, timeout, method, contentType, pc, call, rw, err, invoked,
                   hops, logs, now, ctxErr>>
    /\ UNCHANGED atDeadline
    /\ UNCHANGED probe

\* the watcher's Error: w.Header().Set
WatcherSetHeader ==
    /\ wpc = "errSetHeader"
    /\ sink' = SinkSetContentType(sink, JSONContentType)
    /\ calls' = Append(calls, SetHeaderCall("watcher"))
    /\ wpc' = "errEncode"
    /\ UNCHANGED <<variant, timeout, method, contentType, pc, call, rw, err, invoked,
                   hops, logs, now, ctxErr>>
    /\ UNCHANGED atDeadline
    /\ UNCHANGED probe

\* the watcher's Error: EncodeJSON(w, &msg), and the end of the goroutine
WatcherEncode(ok) ==
    /\ wpc = "errEncode"
    /\ sink' = SinkWrite(sink, EncodeMessage(TimeoutMessage), ok)
    /\ calls' = Append(calls, WriteCall("watcher", EncodeMessage(TimeoutMessage), ok))
    /\ logs' = ErrorLogs(logs, ok)
    /\ wpc' = "end"
    /\ UNCHANGED <<variant, timeout, method, contentType, pc, call, rw, err, invoked,
                   hops, now, ctxErr>>
    /\ UNCHANGED atDeadline
    /\ UNCHANGED probe

NextTimeout ==
    \/ Start
    \/ Gate
    \/ \E code \in HandlerStatuses : HandlerWriteHeader(code)
    \/ HandlerWrite
    \/ \E e \in HandlerErrorsTimeout : HandlerReturn(e)
    \/ Classify
    \/ ErrorWriteHeader
    \/ ErrorSetHeader
    \/ \E ok \in BOOLEAN : ErrorEncode(ok)
    \/ Tick
    \/ ParentCancel
    \/ WatcherWake
    \/ WatcherWriteHeader
    \/ WatcherSetHeader
    \/ \E ok \in BOOLEAN : WatcherEncode(ok)

SpecTimeout == InitTimeout /\ [][NextTimeout]_vars

\* the goroutine of ServeHTTP and the watcher goroutine are both scheduled:
\* once the handler has returned or the gate has rejected the request, a step
\* of ServeHTTP that can be taken is taken, and so is a step of the watcher.
\* Nothing is assumed of the handler (it need not return), of the clock or
\* of the inbound request's context.
DispatcherStep ==
    \/ Classify
    \/ ErrorWriteHeader
    \/ ErrorSetHeader
    \/ \E ok \in BOOLEAN : ErrorEncode(ok)

\* a step of the watcher goroutine
WatcherStep ==
    \/ WatcherWake
    \/ WatcherWriteHeader
    \/ WatcherSetHeader
    \/ \E ok \in BOOLEAN : WatcherEncode(ok)

FairTimeout == WF_vars(DispatcherStep) /\ WF_vars(WatcherStep)

\* the requests of the fair specification: one that passes the gate and one
\* that the gate rejects, with every timeout
InitTimeoutFair ==
    /\ InitTimeout
    /\ <<method, contentType>> \in { <<"GET", <<>> >>, <<"POST", TextPlain>> }

SpecTimeoutFair == InitTimeoutFair /\ [][NextTimeout]_vars /\ FairTimeout

(***************************************************************************)
(* A request to either dispatcher.                                         *)
(***************************************************************************)
InitAny == Init \/ InitTimeout

\* the errors a handler of the dispatcher v returns
HandlerErrorsOf(v) == IF v = "timeout" THEN HandlerErrorsTimeout ELSE HandlerErrors

\* Next for the dispatchers without timeout, NextTimeout for the one with:
\* only the latter derives a context and starts a watcher
NextAny ==
    \/ Start
    \/ Gate
    \/ \E code \in HandlerStatuses : HandlerWriteHeader(code)
    \/ HandlerWrite
    \/ \E e \in HandlerErrorsOf(variant) : HandlerReturn(e)
    \/ Classify
    \/ ErrorWriteHeader
    \/ ErrorSetHeader
    \/ \E ok \in BOOLEAN : ErrorEncode(ok)
    \/ Tick
    \/ variant = "timeout" /\ ParentCancel
    \/ WatcherWake
    \/ WatcherWriteHeader
    \/ WatcherSetHeader
    \/ \E ok \in BOOLEAN : WatcherEncode(ok)

SpecAny == InitAny /\ [][NextAny]_vars

(***************************************************************************)
(* The functions of the package a handler calls: DecodeJSON, and the Is    *)
(* methods of the error types.  variant tells the package: "restflex" and  *)
(* "rest" have apiError, "timeout" has basicAPIError and APIErrorWithCause *)
(* (a structured error with a cause is an APIErrorWithCause there).        *)
(***************************************************************************)
\* the package's error values
ErrAuth == NewAPIError(401, "", Slice(<< <<"authorization required">> >>))
ErrNotFound == NewAPIError(404, "", Slice(<< <<"item not found">> >>))
ErrBadRequest == NewAPIError(400, "", Slice(<< <<StatusText(400)>> >>))
ErrInternal == NewAPIError(500, "", Slice(<< <<"internal server error">> >>))
ErrInvalidRequestBody(v) ==
    IF v = "timeout"
    THEN NewAPIErrorWithMessage(400, <<"expecting well formed JSON request body">>, "")
    ELSE NewAPIError(400, "", Slice(<< <<"expecting well formed request body">> >>))

\* NewBadRequest(messages...)
NewBadRequest(messages) == NewAPIError(400, "", messages)

\* NewAPIErrorWithCause(cause, apiError): the error embeds apiError
NewAPIErrorWithCause(cause, apiError) == [apiError EXCEPT !.cause = cause]

\* the APIError embedded in an APIErrorWithCause
EmbeddedAPIError(e) == [e EXCEPT !.cause = ""]

\* json.Decoder.Decode(o) on a request body: the text of its error, "" when
\* the body parses
DecoderDecode(body) ==
    IF DecodeErrorMessage(body).ok THEN ""
    ELSE IF body = <<>> THEN "EOF"
    ELSE IF Len(body) < 5 THEN "unexpected EOF"
    ELSE "invalid character"

\* DecodeJSON(body, o)
DecodeJSON(v, body) ==
    LET cause == DecoderDecode(body)
    IN  IF cause = "" THEN NilErr
        ELSE IF v = "timeout" THEN NewAPIErrorWithCause(cause, ErrInvalidRequestBody(v))
        ELSE NewAPIError(400, cause, NilSlice)

\* target.(APIError): the target's type implements APIError
IsAPIError(t) == t.kind = "api"

\* e.Is(target) of apiError, basicAPIError and APIErrorWithCause
IsMethod(v, e, t) ==
    IF v = "timeout" /\ e.cause # "" THEN EmbeddedAPIError(e) = t
    ELSE IsAPIError(t)

\* errors.Is(e, target) for a structured error e: the comparison, then e.Is;
\* the cause of e is an opaque error that is not a target of the model
ErrorsIs(v, e, t) == e = t \/ IsMethod(v, e, t)

\* the request bodies a handler decodes
RequestBodies ==
    { OkBody, <<>>, <<P("{")>>, <<P("{"), K("ok"), P(":"), P("}"), P("}")>> }

\* the structured errors a handler compares
StructuredErrors(v) ==
    { ErrAuth, ErrNotFound, ErrBadRequest, ErrInternal, ErrInvalidRequestBody(v),
      NewBadRequest(Slice(<<MsgA>>)),
      NewAPIErrorWithCause("boom", ErrNotFound) }

\* the targets it compares them with
Targets(v) == StructuredErrors(v) \cup { NewOpaque("boom") }

InitLib ==
    /\ variant \in {"restflex", "rest", "timeout"}
    /\ timeout = 0
    /\ method = "GET"
    /\ contentType = <<>>
    /\ pc = "lib"
    /\ wpc = "none"
    /\ \E e \in StructuredErrors(variant), t \in Targets(variant), body \in RequestBodies :
          probe = [NoProbe EXCEPT !.e = e, !.t = t, !.body = body]
    /\ InitCommon

\* errors.Is(e, t)
CallIs ==
    /\ pc = "lib"
    /\ probe.op = "none"
    /\ probe' = [probe EXCEPT !.op = "Is", !.match = ErrorsIs(variant, probe.e, probe.t)]
    /\ UNCHANGED <<variant, timeout, method, contentType, pc, wpc, call, rw, sink, calls,
                   err, invoked, hops, logs, now, ctxErr, atDeadline>>

\* DecodeJSON(body, &o)
CallDecodeJSON ==
    /\ pc = "lib"
    /\ probe.op = "none"
    /\ probe' = [probe EXCEPT !.op = "DecodeJSON", !.ret = DecodeJSON(variant, probe.body)]
    /\ UNCHANGED <<variant, timeout, method, contentType, pc, wpc, call, rw, sink, calls,
                   err, invoked, hops, logs, now, ctxErr, atDeadline>>

NextLib ==
    \/ CallIs
    \/ CallDecodeJSON

SpecLib == InitLib /\ [][NextLib]_vars

(***************************************************************************)
(* What the client observes, and what the claims speak of.                 *)
(***************************************************************************)
\* ServeHTTP has returned
Returned == pc = "done"

\* the error is a structured error or wraps one
IsOrWrapsStructured(e) == e.kind = "api" \/ (e.kind = "wrap" /\ e.inner = "api")

\* no write on the sink was failed by the transport
WritesOK == \A i \in DOMAIN calls : calls[i].ok

\* the calls on the sink made by one of "handler", "dispatcher", "watcher"
CallsBy(who) == SelectSeq(calls, LAMBDA c : c.by = who)

\* the sink after the calls cs, from s
ApplyCall(s, c) ==
    CASE c.op = "WriteHeader" -> SinkWriteHeader(s, c.status)
      [] c.op = "SetHeader" -> SinkSetContentType(s, JSONContentType)
      [] OTHER -> SinkWrite(s, c.data, c.ok)

RECURSIVE ReplaySink(_, _)
ReplaySink(cs, s) ==
    IF cs = <<>> THEN s ELSE ReplaySink(Tail(cs), ApplyCall(s, Head(cs)))

\* the error message list the client decodes from the body
ClientErrors == DecodeErrorMessage(sink.body)

\* some entry of the comma-separated header parses as a media type that
\* begins with an accepted type
SomeEntryAccepted(h) ==
    LET entries == Split(h, ",")
    IN  \E k \in 1..Len(entries) :
            LET p == ParseMediaType(entries[k])
            IN  /\ ~p.err
                /\ \/ HasPrefix(p.t, AppJSON)
                   \/ HasPrefix(p.t, AppForm)

\* the headers of the model that list such an entry
AcceptedHeaders == { h \in ContentTypes : SomeEntryAccepted(h) }

(***************************************************************************)
(* C1.  With a timeout configured, at most one terminal response is        *)
(* written to the sink: the calls on the sink never hold both a call of    *)
(* the watcher and a call of the handler or of the dispatcher.             *)
(* The code does not hold this: SpecTimeout violates C1_OneTerminalResponse*)
(***************************************************************************)
C1_OneTerminalResponse ==
    ~ /\ \E i \in DOMAIN calls : calls[i].by = "watcher"
      /\ \E j \in DOMAIN calls : calls[j].by \in {"handler", "dispatcher"}

(***************************************************************************)
(* C2.  In the dispatcher without timeout, when the handler returned nil   *)
(* and wrote neither a status code nor a body, the client observes status  *)
(* 501 and, when the transport fails no write, a body whose message list   *)
(* is exactly ["Not Implemented"].                                         *)
(***************************************************************************)
C2_DefaultIs501 ==
    (Returned /\ invoked = 1 /\ err.kind = "nil" /\ CallsBy("handler") = <<>>)
        => /\ sink.status = 501
           /\ WritesOK => ClientErrors = [ok |-> TRUE,
                                          errors |-> Slice(<< <<"Not Implemented">> >>)]

C2_Witness ==
    /\ Returned /\ invoked = 1 /\ err.kind = "nil" /\ CallsBy("handler") = <<>>
    /\ WritesOK
    /\ sink.status = 501
    /\ sink.body # <<>>

(***************************************************************************)
(* C3.  In the dispatcher without timeout, once the handler has written    *)
(* through the tracker and returned nil, the dispatcher makes no call on   *)
(* the sink: every call is the handler's, and the sink is what the         *)
(* handler's calls alone make of a fresh sink.                             *)
(***************************************************************************)
C3_NoWriteAfterSuccess ==
    (pc \notin {"gate", "serve"} /\ err.kind = "nil" /\ hops > 0)
        => /\ pc \in {"classify", "done"}
           /\ CallsBy("dispatcher") = <<>>
           /\ Len(calls) = hops
           /\ sink = ReplaySink(CallsBy("handler"), NewSink)

C3_Witness ==
    /\ Returned /\ err.kind = "nil" /\ hops = 2
    /\ calls = <<WriteHeaderCall("handler", 404), WriteCall("handler", OkBody, TRUE)>>
    /\ sink.status = 404
    /\ sink.body = OkBody

(***************************************************************************)
(* C4.  In the dispatcher without timeout, when the handler wrote nothing  *)
(* and returned an error that is or wraps a structured error with status   *)
(* S and a non-empty message list M, the client observes status S and,     *)
(* when the transport fails no write, decodes the message list M, element  *)
(* for element in the same order.                                          *)
(***************************************************************************)
C4_StructuredError ==
    (Returned /\ IsOrWrapsStructured(err) /\ hops = 0
              /\ Len(err.messages.elems) > 0)
        => /\ sink.status = err.statusCode
           /\ WritesOK => ClientErrors = [ok |-> TRUE, errors |-> Slice(err.messages.elems)]

C4_Witness ==
    /\ Returned /\ hops = 0 /\ WritesOK
    /\ err = NewAPIError(400, "", Slice(<<MsgB, MsgA>>))
    /\ sink.status = 400
    /\ ClientErrors.errors.elems = <<MsgB, MsgA>>

(***************************************************************************)
(* C5.  When the handler wrote nothing and returned a structured error     *)
(* with status S and an empty message list, the message list in the body   *)
(* is the single standard reason phrase for S.                             *)
(* The code does not hold this: Spec violates C5_EmptyMessagesDefault.     *)
(***************************************************************************)
C5_EmptyMessagesDefault ==
    (Returned /\ IsOrWrapsStructured(err) /\ hops = 0 /\ WritesOK
              /\ Len(err.messages.elems) = 0)
        => ClientErrors = [ok |-> TRUE,
                           errors |-> Slice(<< <<StatusText(err.statusCode)>> >>)]

(***************************************************************************)
(* C6.  When the handler first wrote a status line or a body and then      *)
(* returned a structured error with status S, the client observes status   *)
(* S and the error body.                                                   *)
(* The code does not hold this: Spec violates C6_ErrorTakesPrecedence.     *)
(***************************************************************************)
C6_ErrorTakesPrecedence ==
    (Returned /\ IsOrWrapsStructured(err) /\ hops > 0 /\ WritesOK)
        => /\ sink.status = err.statusCode
           /\ sink.body = EncodeErrorMessage(err.messages)

(***************************************************************************)
(* C7.  When the handler returned a non-nil error that neither is nor      *)
(* wraps a structured error, the client observes status 500 and the        *)
(* message list ["Internal Server Error"].                                 *)
(* The code does not hold this for a handler that wrote before it          *)
(* returned: Spec violates C7_OpaqueErrorIs500.                            *)
(***************************************************************************)
C7_OpaqueErrorIs500 ==
    (Returned /\ err.kind # "nil" /\ ~IsOrWrapsStructured(err) /\ WritesOK)
        => /\ sink.status = 500
           /\ ClientErrors = [ok |-> TRUE,
                              errors |-> Slice(<< <<"Internal Server Error">> >>)]

(***************************************************************************)
(* C8.  A POST, PUT or PATCH request whose Content-Type header is missing, *)
(* unparsable, or lists no media type beginning with an accepted prefix    *)
(* never reaches the handler, and the client observes status 415.          *)
(***************************************************************************)
C8_RejectedBeforeHandler ==
    (method \in {"POST", "PUT", "PATCH"} /\ contentType \notin AcceptedHeaders)
        => /\ invoked = 0
           /\ pc # "serve"
           /\ Returned => sink.status = 415

C8_Witness ==
    /\ Returned
    /\ method = "PUT"
    /\ contentType = AppJSON \o <<";"," ","c","h","a","r","s","e","t">>
    /\ invoked = 0
    /\ sink.status = 415

(***************************************************************************)
(* C9.  For a POST, PUT or PATCH request, the gate passes (the handler is  *)
(* invoked) if and only if some entry of the comma-separated Content-Type  *)
(* header parses as a media type that begins with "application/json" or    *)
(* "application/x-www-form-urlencoded"; "application/json; charset=utf-8"  *)
(* passes, and an entry that does not parse is skipped.                    *)
(***************************************************************************)
C9_GatePassesIffAccepted ==
    (method \in {"POST", "PUT", "PATCH"} /\ pc # "gate")
        => /\ (invoked = 1) <=> contentType \in AcceptedHeaders
           /\ contentType = AppJSON \o Charset => invoked = 1
           /\ contentType = <<"a"," ","b">> \o <<",">> \o AppJSON => invoked = 1

C9_Witness ==
    /\ method = "PATCH"
    /\ contentType = <<"a"," ","b">> \o <<","," ">> \o AppForm
    /\ pc = "serve"
    /\ invoked = 1

(***************************************************************************)
(* C10.  A request whose method is not POST, PUT or PATCH passes the gate  *)
(* and reaches the handler, whatever its Content-Type header and also      *)
(* without one: the handler is invoked and no 415 is written.              *)
(***************************************************************************)
C10_OtherMethodsPass ==
    (method \notin {"POST", "PUT", "PATCH"} /\ pc # "gate")
        => /\ invoked = 1
           /\ \A i \in DOMAIN calls : calls[i].status # 415

C10_Witness ==
    /\ method = "DELETE"
    /\ contentType = <<>>
    /\ pc = "serve"
    /\ invoked = 1

\* ServeHTTP has returned and the watcher goroutine has ended
Finished == pc = "done" /\ wpc = "end"

\* the message the client decodes from a body of the dispatcher with timeout:
\* the first JSON value of the stream
ClientMessage ==
    IF /\ Len(sink.body) >= 5
       /\ sink.body[1] = P("{") /\ sink.body[2] = K("message") /\ sink.body[3] = P(":")
       /\ sink.body[4].t = "str" /\ sink.body[5] = P("}")
    THEN sink.body[4].v
    ELSE <<>>

(***************************************************************************)
(* C11.  With a timeout configured, when the deadline elapsed while the    *)
(* handler had not returned (before its invocation or during it), the      *)
(* client observes status 429 and the message "request took too long to    *)
(* complete".                                                              *)
(* The code does not hold this: SpecTimeout violates C11_TimeoutIs429.     *)
(***************************************************************************)
C11_TimeoutIs429 ==
    (Finished /\ invoked = 1 /\ atDeadline.pc \in {"start", "gate", "serve"} /\ WritesOK)
        => /\ sink.status = 429
           /\ ClientMessage = <<"request took too long to complete">>

(***************************************************************************)
(* C12.  The watcher writes its 429 response only if, when the deadline    *)
(* elapsed, the handler invocation had not completed and no call of a      *)
(* terminal response (of the handler or of the dispatcher) had reached the *)
(* sink.                                                                   *)
(* The code does not hold this: SpecTimeout violates                       *)
(* C12_WatcherOnlyBeforeResponse.                                          *)
(***************************************************************************)
C12_WatcherOnlyBeforeResponse ==
    (CallsBy("watcher") # <<>>)
        => /\ atDeadline.pc \in {"start", "gate", "serve"}
           /\ atDeadline.ncalls = 0

(***************************************************************************)
(* C13.  With a timeout configured, as long as the context's error is not  *)
(* the deadline's (the context is live, or it was canceled by the deferred *)
(* cancel of ServeHTTP or through the inbound request's context), the      *)
(* watcher has made no call on the sink, is in no Error call and has       *)
(* logged no timeout.                                                      *)
(***************************************************************************)
C13_CancelWritesNothing ==
    (ctxErr # "DeadlineExceeded")
        => /\ CallsBy("watcher") = <<>>
           /\ wpc \in {"none", "wait", "end"}
           /\ \A i \in DOMAIN logs : logs[i].kind # "API timeout"

C13_Witness ==
    /\ Finished
    /\ ctxErr = "Canceled"
    /\ now < timeout
    /\ err.kind = "nil"
    /\ calls = <<WriteCall("handler", OkBody, TRUE)>>
    /\ sink.status = 200

(***************************************************************************)
(* C14.  Every error response of Error reaches the client with the         *)
(* Content-Type "application/json; charset=utf-8": when the handler wrote  *)
(* nothing, the header set committed with the status line holds it.        *)
(* The code does not hold this: Spec violates C14_ContentTypeAtCommit.     *)
(***************************************************************************)
C14_ContentTypeAtCommit ==
    (Returned /\ hops = 0) => sink.ctype = "application/json; charset=utf-8"

(***************************************************************************)
(* C15.  The body of a gate rejection carries exactly one message: POST,   *)
(* PUT, and PATCH methods require request content type of                  *)
(* "application/json" or "application/x-www-form-urlencoded", with nothing *)
(* after the last type.                                                    *)
(* The code does not hold this: Spec violates C15_GateMessage.             *)
(***************************************************************************)
C15_GateMessage ==
    (Returned /\ invoked = 0 /\ WritesOK)
        => ClientErrors =
               [ok |-> TRUE,
                errors |-> Slice(<< <<"POST, PUT, and PATCH methods require request content type of ">>
                                    \o <<"\"">> \o AppJSON \o <<"\"">>
                                    \o <<" or ">>
                                    \o <<"\"">> \o AppForm \o <<"\"">> >>)]

\* the calls of Error made by ServeHTTP: each begins with one WriteHeader
ErrorInvocations ==
    Len(SelectSeq(calls, LAMBDA c : c.by = "dispatcher" /\ c.op = "WriteHeader"))

\* the outcome of a returned request
Outcome ==
    CASE invoked = 0 -> "gate-rejected"
      [] err.kind = "nil" /\ hops = 0 -> "unimplemented"
      [] err.kind = "nil" -> "success"
      [] IsOrWrapsStructured(err) -> "known API error"
      [] OTHER -> "opaque error"

\* the status Error is called with for an outcome
OutcomeStatus ==
    CASE Outcome = "gate-rejected" -> 415
      [] Outcome = "unimplemented" -> 501
      [] Outcome = "known API error" -> err.statusCode
      [] OTHER -> 500

(***************************************************************************)
(* C16.  In the dispatcher without timeout, Error is never invoked more    *)
(* than once for a request; a returned request whose outcome is success    *)
(* has no call of Error, and a returned request with any other outcome     *)
(* (gate-rejected, unimplemented, known API error, opaque error) has       *)
(* exactly one, with the status of that outcome: its three calls on the    *)
(* sink are the only calls of the dispatcher.                              *)
(***************************************************************************)
C16_OneErrorCallPerOutcome ==
    /\ ErrorInvocations <= 1
    /\ Returned =>
          IF Outcome = "success"
          THEN CallsBy("dispatcher") = <<>>
          ELSE /\ ErrorInvocations = 1
               /\ Len(CallsBy("dispatcher")) = 3
               /\ CallsBy("dispatcher")[1] = WriteHeaderCall("dispatcher", OutcomeStatus)
               /\ CallsBy("dispatcher")[2].op = "SetHeader"
               /\ CallsBy("dispatcher")[3].op = "Write"

C16_Witness ==
    /\ Returned
    /\ err = NewOpaque("boom")
    /\ hops = 0
    /\ ErrorInvocations = 1
    /\ sink.status = 500

\* the step is a write through the tracker: a call of the handler, or a call
\* of an Error that was given the tracker
TrackerStep ==
    /\ Len(calls') = Len(calls) + 1
    /\ calls'[Len(calls')].op \in {"WriteHeader", "Write"}
    /\ \/ calls'[Len(calls')].by = "handler"
       \/ calls'[Len(calls')].by = "dispatcher" /\ call.target = "rw"

(***************************************************************************)
(* C17.  Every status-code write and every body write through the tracker  *)
(* reaches the underlying sink with the arguments it was given, and leaves *)
(* isWritten = TRUE; a status-code write leaves the tracker's status equal *)
(* to the code that reached the sink, and a body write leaves the status   *)
(* as it was.                                                              *)
(***************************************************************************)
C17_TrackerForwards ==
    [][ TrackerStep =>
          LET c == calls'[Len(calls')]
          IN  /\ rw'.isWritten
              /\ c.by = "dispatcher" /\ c.op = "WriteHeader" => c.status = call.status
              /\ c.by = "dispatcher" /\ c.op = "Write"
                    => c.data = ErrorBody(variant, call.messages)
              /\ c.by = "handler" /\ c.op = "Write" => c.data = OkBody
              /\ c.op = "WriteHeader"
                    => /\ rw'.status = c.status
                       /\ sink' = SinkWriteHeader(sink, c.status)
              /\ c.op = "Write"
                    => /\ rw'.status = rw.status
                       /\ sink' = SinkWrite(sink, c.data, c.ok) ]_vars

C17_Witness ==
    /\ pc = "serve"
    /\ calls = <<WriteHeaderCall("handler", 404)>>
    /\ rw = [isWritten |-> TRUE, status |-> 404]
    /\ sink.status = 404

\* the writes made through the tracker the dispatcher created
TrackerCalls ==
    IF invoked = 0 THEN <<>>
    ELSE SelectSeq(calls, LAMBDA c : c.op \in {"WriteHeader", "Write"})

\* the code of the most recent status-code write of cs, 200 when there is none
LastStatus(cs) ==
    LET hs == SelectSeq(cs, LAMBDA c : c.op = "WriteHeader")
    IN  IF hs = <<>> THEN 200 ELSE hs[Len(hs)].status

(***************************************************************************)
(* C18.  At every point of a request of the dispatcher without timeout,    *)
(* the tracker's isWritten is TRUE exactly when a write was made through   *)
(* it (so it is FALSE before the first and never goes back), and its       *)
(* status is the code of the most recent status-code write through it, or  *)
(* 200 when there was none; body writes do not count.                      *)
(***************************************************************************)
C18_TrackerState ==
    (invoked = 1)
        => /\ rw.isWritten <=> TrackerCalls # <<>>
           /\ rw.status = LastStatus(TrackerCalls)

C18_Witness ==
    /\ pc = "classify"
    /\ calls = <<WriteHeaderCall("handler", 404), WriteCall("handler", OkBody, TRUE)>>
    /\ rw = [isWritten |-> TRUE, status |-> 404]

\* an error without the text of an opaque or wrapping error and without the
\* cause of a structured error
Redact(e) == [e EXCEPT !.cause = "", !.text = ""]

(***************************************************************************)
(* C19.  What the dispatcher without timeout writes to the client is what  *)
(* it writes for the same request when the returned error carries no text  *)
(* and no cause: two requests that differ only in the opaque error's text  *)
(* or in the structured error's cause get the same calls on the sink,      *)
(* hence the same status, headers and body; and no string of the body is   *)
(* the text or the cause.                                                  *)
(***************************************************************************)
C19_NoLeak ==
    (invoked = 1 /\ pc \notin {"gate", "serve", "classify"})
        => LET rc == OutcomeCall(variant, Redact(err), hops > 0)
           IN  /\ \A i \in DOMAIN calls :
                     calls[i].by = "dispatcher"
                        => /\ rc.target # "none"
                           /\ calls[i].op = "WriteHeader" => calls[i].status = rc.status
                           /\ calls[i].op = "Write"
                                 => calls[i].data = ErrorBody(variant, rc.messages)
               /\ Returned => ErrorInvocations = (IF rc.target = "none" THEN 0 ELSE 1)
               /\ sink = ReplaySink(calls, NewSink)
               /\ \A i \in DOMAIN sink.body :
                     sink.body[i].t = "str" => sink.body[i].v \notin {<<"boom">>, <<"secret">>}

C19_Witness ==
    /\ Returned /\ hops = 0 /\ WritesOK
    /\ err = NewAPIError(500, "secret", Slice(<<MsgA>>))
    /\ sink.status = 500
    /\ sink.body = EncodeErrorMessage(Slice(<<MsgA>>))

\* the request passes the gate
PassesGate == method \notin {"POST", "PUT", "PATCH"} \/ contentType \in AcceptedHeaders

(***************************************************************************)
(* C20.  In the dispatcher with timeout and in the one without, the        *)
(* wrapped handler is invoked exactly once for a request that passes the   *)
(* gate, and never a second time, whatever the outcome: once ServeHTTP is  *)
(* past the gate the count is 1 and stays 1, also when the watcher has     *)
(* written the timeout response.                                           *)
(***************************************************************************)
C20_InvokedOnce ==
    /\ invoked <= 1
    /\ (PassesGate /\ pc \notin {"start", "gate"}) => invoked = 1

C20_Witness ==
    /\ variant = "timeout"
    /\ Finished
    /\ PassesGate
    /\ CallsBy("watcher") # <<>>
    /\ err.kind # "nil"
    /\ invoked = 1

(***************************************************************************)
(* C21.  DecodeJSON returns nil when the body parses, and when it does not *)
(* it returns a structured error with status 400, the one client-facing    *)
(* message "malformed request body", and the parse failure as its cause.   *)
(* The code does not hold this: SpecLib violates C21_DecodeJSON.           *)
(***************************************************************************)
C21_DecodeJSON ==
    (probe.op = "DecodeJSON")
        => IF probe.body = OkBody
           THEN probe.ret = NilErr
           ELSE /\ probe.ret.kind = "api"
                /\ probe.ret.statusCode = 400
                /\ probe.ret.messages = Slice(<< <<"malformed request body">> >>)
                /\ probe.ret.cause # ""

(***************************************************************************)
(* C30.  For structured errors e and t, errors.Is(e, t) reports a match    *)
(* only when t is the same error as e: two structured errors with          *)
(* different status codes or different messages do not match.              *)
(* The code does not hold this: SpecLib violates C30_IsOnlySameError.      *)
(***************************************************************************)
C30_IsOnlySameError ==
    (probe.op = "Is" /\ probe.match)
        => /\ probe.e.statusCode = probe.t.statusCode
           /\ probe.e.messages = probe.t.messages

(***************************************************************************)
(* C22.  When the serialization of the error body fails inside Error, the  *)
(* failure is logged and swallowed: the failed write is the last call on   *)
(* the sink, Error was invoked once and is not invoked again, the last log *)
(* entry is that of the failure, and ServeHTTP has returned.               *)
(***************************************************************************)
C22_EncodeFailureSwallowed ==
    \A i \in DOMAIN calls :
        (calls[i].by = "dispatcher" /\ ~calls[i].ok)
            => /\ i = Len(calls)
               /\ Returned
               /\ ErrorInvocations = 1
               /\ logs # <<>>
               /\ logs[Len(logs)].kind = "error while writing error response"

C22_Witness ==
    /\ Returned
    /\ ~WritesOK
    /\ err.kind = "nil"
    /\ sink.status = 501
    /\ sink.body = <<>>
    /\ Len(calls) = 3

(***************************************************************************)
(* C23.  A handler error that is not itself a structured error but wraps   *)
(* one, under one wrapper or more, is answered as a known API error: the   *)
(* one Error call of the request has the wrapped error's status code, not  *)
(* 500, and its messages; when the handler wrote nothing before, that      *)
(* status is the one the client observes.                                  *)
(***************************************************************************)
C23_WrappedIsKnown ==
    (Returned /\ err.kind = "wrap" /\ err.inner = "api")
        => /\ CallsBy("dispatcher")[1] = WriteHeaderCall("dispatcher", 404)
           /\ CallsBy("dispatcher")[3].data = EncodeErrorMessage(Slice(<<MsgB>>))
           /\ hops = 0 => sink.status = 404
           /\ (hops = 0 /\ WritesOK)
                 => ClientErrors = [ok |-> TRUE, errors |-> Slice(<<MsgB>>)]

C23_Witness ==
    /\ Returned /\ hops = 0 /\ WritesOK
    /\ err = Wrap("secret", Wrap("boom", NewAPIError(404, "", Slice(<<MsgB>>))))
    /\ sink.status = 404
    /\ ClientErrors.errors = Slice(<<MsgB>>)

(***************************************************************************)
(* C24.  In the dispatcher without timeout, a returned request whose       *)
(* committed status is in 400..499 has a client-error log entry, and one   *)
(* whose committed status is 500 or greater than 501 has a server-error    *)
(* log entry with the text of the error, whatever produced the status.     *)
(* The code does not hold this: Spec violates C24_StatusLogged.            *)
(***************************************************************************)
C24_StatusLogged ==
    Returned
        => /\ (sink.status >= 400 /\ sink.status <= 499)
                 => \E i \in DOMAIN logs : logs[i].kind = "client error"
           /\ (sink.status = 500 \/ sink.status > 501)
                 => \E i \in DOMAIN logs :
                        /\ logs[i].kind = "server error"
                        /\ logs[i].text = ErrorTextOf(err)

(***************************************************************************)
(* C25.  With a timeout of zero the watcher never writes a 429 response,   *)
(* and a handler that writes a response and returns nil yields that        *)
(* response and nothing else.                                              *)
(* The code does not hold this: SpecTimeout violates C25_ZeroDisables.     *)
(***************************************************************************)
C25_ZeroDisables ==
    (timeout = 0)
        => /\ CallsBy("watcher") = <<>>
           /\ (Finished /\ err.kind = "nil" /\ hops > 0)
                 => sink = ReplaySink(CallsBy("handler"), NewSink)

\* ServeHTTP is past the handler call, or the gate rejected the request
HandlerPathOver == pc \in {"classify", "errWriteHeader", "errSetHeader", "errEncode", "done"}

(***************************************************************************)
(* C26.  With a timeout configured, the context is canceled (or past its   *)
(* deadline) when ServeHTTP has returned, after a gate rejection as well   *)
(* as after the handler; and once the handler has returned or the gate has *)
(* rejected the request, the watcher goroutine eventually ends.            *)
(***************************************************************************)
C26_WatcherEnds ==
    /\ [](Returned => ctxErr # "none")
    /\ (HandlerPathOver ~> wpc = "end")

C26_Witness ==
    /\ Finished
    /\ invoked = 0
    /\ timeout > 0
    /\ ctxErr = "Canceled"
    /\ CallsBy("watcher") = <<>>
    /\ sink.status = 415

(***************************************************************************)
(* C27.  With a timeout configured, when the dispatcher classifies the     *)
(* handler's outcome, isWritten is TRUE if and only if a status line or a  *)
(* body has been written to the underlying sink by any path, the watcher's *)
(* included.                                                               *)
(* The code does not hold this: SpecTimeout violates C27_IsWrittenIsSink.  *)
(***************************************************************************)
C27_IsWrittenIsSink ==
    (pc = "classify") => (rw.isWritten <=> sink.committed)

(***************************************************************************)
(* C28.  With a timeout configured, the watcher makes no call on the sink  *)
(* after ServeHTTP has returned.                                           *)
(* The code does not hold this: SpecTimeout violates                       *)
(* C28_NoWatcherWriteAfterReturn.                                          *)
(***************************************************************************)
C28_NoWatcherWriteAfterReturn ==
    [][ Returned => CallsBy("watcher")' = CallsBy("watcher") ]_vars

(***************************************************************************)
(* C29.  In the dispatcher without timeout, whenever isWritten is TRUE the *)
(* tracker's status equals the status committed on the underlying sink.    *)
(* The code does not hold this: Spec violates C29_StatusIsCommitted.       *)
(***************************************************************************)
C29_StatusIsCommitted ==
    (invoked = 1 /\ rw.isWritten) => rw.status = sink.status

=============================================================================
